---- MODULE Spec2Model ----
(***************************************************************************)
(* A model of gm-rs: the SM9 fixed-width integer layer (gm-sm9/src/u256.rs), *)
(* the SM9 base-curve point layer (gm-sm9/src/points.rs) and the SM2 public *)
(* key encryption protocol (src/sm2/key.rs).                                *)
(*                                                                         *)
(* Machine words are scaled: a u64 limb is a word of WordBits = 2*HalfBits  *)
(* bits and a u32 half-limb has HalfBits bits, because TLC's integers are   *)
(* 32 bits wide.  Every word operation wraps modulo 2^WordBits exactly as   *)
(* the u64 operation wraps modulo 2^64, and the number of limbs (4, 8, 16)  *)
(* is the program's.                                                       *)
(***************************************************************************)
EXTENDS Integers, Sequences, FiniteSets, TLC

\* Width of a half-limb (u32 in the source), in bits.
HalfBits == 2

RECURSIVE Pow2(_)
Pow2(n) == IF n = 0 THEN 1 ELSE 2 * Pow2(n - 1)

WordBits == 2 * HalfBits
\* 2^64 in the source: one more than the largest limb.
Word == Pow2(WordBits)
\* 2^32 in the source.
Half == Pow2(HalfBits)
MaxWord == Word - 1
\* 0xffffffff
HalfMask == Half - 1

\* Limbs of a U256 and of a U512, and half-limbs of the multiplication buffers.
U256Idx == 0..3
U512Idx == 0..7
SIdx == 0..15

SM9_ZERO == [k \in U256Idx |-> 0]
SM9_ONE == [k \in U256Idx |-> IF k = 0 THEN 1 ELSE 0]

B2N(c) == IF c THEN 1 ELSE 0

\* u64::overflowing_add and u64::overflowing_sub
overflowing_add(x, y) == <<(x + y) % Word, x + y >= Word>>
overflowing_sub(x, y) == <<(x - y) % Word, x < y>>

\* x << n and x | y on words
Shl(x, n) == (x * Pow2(n)) % Word

RECURSIVE BitOr(_, _, _)
BitOr(x, y, n) ==
    IF n = 0 THEN 0
    ELSE (IF x % 2 = 1 \/ y % 2 = 1 THEN 1 ELSE 0)
         + 2 * BitOr(x \div 2, y \div 2, n - 1)

----------------------------------------------------------------------------
(* u256_add: the loop over i = 0..3 with its carry.                         *)

\* A carry that is dropped when the limb sum itself does not overflow.
AddLimbNoSecondCarry(x, y, carry) ==
    LET p1 == overflowing_add(x, y)
        p2 == overflowing_add(p1[1], B2N(carry))
    IN  <<p2[1], p1[2]>>

\* One iteration's block: (t_sum, c) of u256.rs lines 15-19.
AddLimb(x, y, carry) ==
    LET p1 == overflowing_add(x, y)
        p2 == overflowing_add(p1[1], B2N(carry))
    IN  <<p2[1], p1[2] \/ p2[2]>>

RECURSIVE AddLoop(_, _, _, _, _)
AddLoop(x, y, i, sum, carry) ==
    LET t == AddLimb(x[i], y[i], carry)
        sum2 == [sum EXCEPT ![i] = t[1]]
    IN  IF i = 3 THEN <<sum2, t[2]>> ELSE AddLoop(x, y, i + 1, sum2, t[2])

u256_add(x, y) == AddLoop(x, y, 0, SM9_ZERO, FALSE)

(* u256_sub: the loop over j = 3..0, i = 3 - j, with its borrow.            *)

\* One iteration's block: (diff, bor) of u256.rs lines 58-62.
SubLimb(x, y, borrow) ==
    LET p1 == overflowing_sub(x, B2N(borrow))
        p2 == overflowing_sub(p1[1], y)
    IN  <<p2[1], p1[2] \/ p2[2]>>

RECURSIVE SubLoop(_, _, _, _, _)
SubLoop(x, y, j, r, borrow) ==
    LET i == 3 - j
        t == SubLimb(x[i], y[i], borrow)
        r2 == [r EXCEPT ![i] = t[1]]
    IN  IF j = 0 THEN <<r2, t[2]>> ELSE SubLoop(x, y, j - 1, r2, t[2])

u256_sub(x, y) == SubLoop(x, y, 3, SM9_ZERO, FALSE)

\* u256_cmp: most-significant limb first.
RECURSIVE CmpFrom(_, _, _)
CmpFrom(x, y, i) ==
    IF x[i] > y[i] THEN 1
    ELSE IF x[i] < y[i] THEN -1
    ELSE IF i = 0 THEN 0 ELSE CmpFrom(x, y, i - 1)

u256_cmp(x, y) == CmpFrom(x, y, 3)

----------------------------------------------------------------------------
(* Byte conversion.  A limb has LimbBytes bytes of ByteBits bits (8 bytes   *)
(* of 8 bits in the source); the 32-byte array is indexed from 0.           *)

ByteBits == HalfBits
LimbBytes == WordBits \div ByteBits
ByteMod == Pow2(ByteBits)
BytesIdx == 0..(4 * LimbBytes - 1)

\* u64::to_le_bytes and u64::from_le_bytes
to_le_bytes(x) == [k \in 0..(LimbBytes - 1) |-> (x \div Pow2(ByteBits * k)) % ByteMod]

RECURSIVE LeValue(_, _, _)
LeValue(bs, off, k) ==
    IF k = LimbBytes THEN 0
    ELSE bs[off + k] * Pow2(ByteBits * k) + LeValue(bs, off, k + 1)

from_le_bytes(bs, off) == LeValue(bs, off, 0)

\* u64::from_be_bytes: the same bytes read most-significant first.
RECURSIVE BeValue(_, _, _)
BeValue(bs, off, k) ==
    IF k = LimbBytes THEN 0
    ELSE bs[off + k] * Pow2(ByteBits * (LimbBytes - 1 - k)) + BeValue(bs, off, k + 1)

sm9_u256_to_bytes(x) ==
    [n \in BytesIdx |-> to_le_bytes(x[3 - (n \div LimbBytes)])[n % LimbBytes]]

\* Reads each limb big-endian although it was written little-endian.
sm9_u256_from_bytes_be_limbs(input) ==
    [k \in U256Idx |-> BeValue(input, (3 - k) * LimbBytes, 0)]

sm9_u256_from_bytes(input) ==
    [k \in U256Idx |-> from_le_bytes(input, (3 - k) * LimbBytes)]

----------------------------------------------------------------------------
(* u256_mul, one inner-loop iteration per step.                             *)

\* a_[2i] = a[i] & 0xffffffff; a_[2i+1] = a[i] >> 32
SplitHalves(x) ==
    [k \in U512Idx |-> IF k % 2 = 0 THEN x[k \div 2] % Half ELSE x[k \div 2] \div Half]

\* s[i + j] + a_[i] * b_[j] + u, before any wrap of the u64 it is held in
MulAcc(sv, x, y, uin) == sv + x * y + uin

\* The low half stored without its mask.
MulStoreNoMask(w) == w

\* s[i + j] = u & 0xffffffff
MulStore(w) == w % Half

\* u >>= 32
MulCarry(w) == w \div Half

\* A recombination that shifts the high half by one bit too few.
RecombineShortShift(sv) ==
    [k \in U512Idx |-> BitOr(Shl(sv[2 * k + 1], HalfBits - 1), sv[2 * k], WordBits)]

\* ret[i] = (s[2i + 1] << 32) | s[2i]
Recombine(sv) ==
    [k \in U512Idx |-> BitOr(Shl(sv[2 * k + 1], HalfBits), sv[2 * k], WordBits)]

----------------------------------------------------------------------------
(* State of the integer layer: the two operands, the position of the call   *)
(* in progress and the locals and results of each function.                 *)

VARIABLES
    pc,        \* position of the integer-layer call in progress
    a, b,      \* the U256 operands
    sum, carry,       \* u256_add(a, b)
    diff, borrow,     \* u256_sub of the last subtraction
    bytes, decoded,   \* sm9_u256_to_bytes(a) and sm9_u256_from_bytes of it
    a_, b_, s, u, i, j,  \* locals of u256_mul
    acc,       \* the last value of s[i + j] + a_[i] * b_[j] + u
    ret        \* the U512 u256_mul returns

intVars == <<pc, a, b, sum, carry, diff, borrow, bytes, decoded,
             a_, b_, s, u, i, j, acc, ret>>
mulVars == <<a_, b_, s, u, i, j, acc, ret>>

\* Limb values the operands are drawn from: 0, 1 and the all-ones limb.
LimbVals == {0, 1, MaxWord}
U256Inputs == [U256Idx -> LimbVals]

ZeroBytes == [n \in BytesIdx |-> 0]
ZeroU512 == [k \in U512Idx |-> 0]
ZeroS == [k \in SIdx |-> 0]

IntIdle ==
    /\ pc = "idle"
    /\ sum = SM9_ZERO /\ carry = FALSE
    /\ diff = SM9_ZERO /\ borrow = FALSE
    /\ bytes = ZeroBytes /\ decoded = SM9_ZERO
    /\ a_ = ZeroU512 /\ b_ = ZeroU512 /\ s = ZeroS
    /\ u = 0 /\ i = 0 /\ j = 0 /\ acc = 0 /\ ret = ZeroU512

IntInit ==
    /\ a \in U256Inputs
    /\ b \in U256Inputs
    /\ IntIdle

\* let (r, c) = u256_add(&a, &b)
CallAdd ==
    /\ pc = "idle"
    /\ sum' = u256_add(a, b)[1]
    /\ carry' = u256_add(a, b)[2]
    /\ pc' = "added"
    /\ UNCHANGED <<a, b, diff, borrow, bytes, decoded, mulVars>>

\* let (r, c) = u256_sub(&sum, &b)
CallSubSum ==
    /\ pc = "added"
    /\ diff' = u256_sub(sum, b)[1]
    /\ borrow' = u256_sub(sum, b)[2]
    /\ pc' = "subbed"
    /\ UNCHANGED <<a, b, sum, carry, bytes, decoded, mulVars>>

\* let (r, c) = u256_sub(&a, &b)
CallSub ==
    /\ pc = "idle"
    /\ diff' = u256_sub(a, b)[1]
    /\ borrow' = u256_sub(a, b)[2]
    /\ pc' = "sub_done"
    /\ UNCHANGED <<a, b, sum, carry, bytes, decoded, mulVars>>

CallToBytes ==
    /\ pc = "idle"
    /\ bytes' = sm9_u256_to_bytes(a)
    /\ pc' = "encoded"
    /\ UNCHANGED <<a, b, sum, carry, diff, borrow, decoded, mulVars>>

CallFromBytes ==
    /\ pc = "encoded"
    /\ decoded' = sm9_u256_from_bytes(bytes)
    /\ pc' = "decoded"
    /\ UNCHANGED <<a, b, sum, carry, diff, borrow, bytes, mulVars>>

\* u256.rs lines 126-138: the buffers and the split into half-limbs
MulBegin ==
    /\ pc = "idle"
    /\ a_' = SplitHalves(a)
    /\ b_' = SplitHalves(b)
    /\ s' = ZeroS
    /\ ret' = ZeroU512
    /\ u' = 0 /\ i' = 0 /\ j' = 0 /\ acc' = 0
    /\ pc' = "mul_inner"
    /\ UNCHANGED <<a, b, sum, carry, diff, borrow, bytes, decoded>>

\* u256.rs lines 140-145: one iteration of the inner loop (u = 0 as a row starts)
MulInner ==
    /\ pc = "mul_inner"
    /\ LET uin == IF j = 0 THEN 0 ELSE u
           w == MulAcc(s[i + j], a_[i], b_[j], uin)
       IN  /\ acc' = w
           /\ s' = [s EXCEPT ![i + j] = MulStore(w % Word)]
           /\ u' = MulCarry(w % Word)
    /\ j' = j + 1
    /\ pc' = IF j = 7 THEN "mul_row_end" ELSE "mul_inner"
    /\ UNCHANGED <<a, b, sum, carry, diff, borrow, bytes, decoded, a_, b_, i, ret>>

\* u256.rs line 146: s[i + 8] = u, and on to the next row
MulRowEnd ==
    /\ pc = "mul_row_end"
    /\ s' = [s EXCEPT ![i + 8] = u]
    /\ i' = i + 1
    /\ j' = 0
    /\ pc' = IF i = 7 THEN "mul_combine" ELSE "mul_inner"
    /\ UNCHANGED <<a, b, sum, carry, diff, borrow, bytes, decoded, a_, b_, u, acc, ret>>

\* u256.rs lines 149-152
MulCombine ==
    /\ pc = "mul_combine"
    /\ ret' = Recombine(s)
    /\ pc' = "mul_done"
    /\ UNCHANGED <<a, b, sum, carry, diff, borrow, bytes, decoded, a_, b_, s, u, i, j, acc>>


----------------------------------------------------------------------------
(* The prime field Fp of crate::fields::fp, over a small prime.  Every      *)
(* operation returns the canonical representative in [0, p).                *)

\* The field prime (the SM9 prime in the program).
FpPrime == 7
Fp == 0..(FpPrime - 1)

fp_zero == 0
fp_one == 1
fp_is_zero(x) == x = 0
fp_add(x, y) == (x + y) % FpPrime
fp_sub(x, y) == (x - y) % FpPrime
fp_neg(x) == (FpPrime - x) % FpPrime
fp_double(x) == (2 * x) % FpPrime
fp_triple(x) == (3 * x) % FpPrime
fp_mul(x, y) == (x * y) % FpPrime
fp_sqr(x) == (x * x) % FpPrime
\* Division by two modulo the odd prime: add p to an odd value, then shift.
fp_div2(x) == IF x % 2 = 1 THEN (x + FpPrime) \div 2 ELSE x \div 2

----------------------------------------------------------------------------
(* Point: Jacobian coordinates (x, y, z) over Fp; infinity iff z = 0.       *)

Points == [x : Fp, y : Fp, z : Fp]

\* Point::zero
point_zero == [x |-> fp_one, y |-> fp_one, z |-> fp_zero]

\* Point::is_zero
is_zero(p) == fp_is_zero(p.z)

\* The outcome of a call: the point returned, or a panic (todo!()).
Returned(p) == [panicked |-> FALSE, pt |-> p]
Panicked == [panicked |-> TRUE, pt |-> point_zero]

\* A doubling that forgets the halving of 16 y^4.
point_double_no_div2(p) ==
    IF is_zero(p) THEN p
    ELSE LET t2 == fp_triple(fp_sqr(p.x))
             y3a == fp_double(p.y)
             z3 == fp_mul(y3a, p.z)
             y3b == fp_sqr(y3a)
             t3 == fp_mul(y3b, p.x)
             y3c == fp_sqr(y3b)
             x3 == fp_sub(fp_sqr(t2), fp_double(t3))
             t1 == fp_mul(fp_sub(t3, x3), t2)
         IN  [x |-> x3, y |-> fp_sub(t1, y3c), z |-> z3]

\* Point::point_double, assignment by assignment
point_double(p) ==
    IF is_zero(p) THEN p
    ELSE LET x1 == p.x
             y1 == p.y
             z1 == p.z
             t2a == fp_sqr(x1)
             t2 == fp_triple(t2a)
             y3a == fp_double(y1)
             z3 == fp_mul(y3a, z1)
             y3b == fp_sqr(y3a)
             t3 == fp_mul(y3b, x1)
             y3c == fp_sqr(y3b)
             y3d == fp_div2(y3c)
             x3a == fp_sqr(t2)
             t1a == fp_double(t3)
             x3 == fp_sub(x3a, t1a)
             t1b == fp_sub(t3, x3)
             t1 == fp_mul(t1b, t2)
             y3 == fp_sub(t1, y3d)
         IN  [x |-> x3, y |-> y3, z |-> z3]

\* Point::point_neg
point_neg(p) == [x |-> p.x, y |-> fp_neg(p.y), z |-> p.z]

\* Point::point_add: the two infinity cases, then todo!()
point_add(p, rhs) ==
    IF is_zero(rhs) THEN Returned(p)
    ELSE IF is_zero(p) THEN Returned(rhs)
    ELSE Panicked

\* Point::point_sub
point_sub(p, rhs) == point_add(p, point_neg(rhs))

\* Point::point_mul: todo!()
point_mul(p, k) == Panicked

VARIABLES
    ppc,      \* position of the point-layer call in progress
    P,        \* the point the call is made on
    k,        \* the U256 scalar of point_mul
    pres      \* the outcome of the call

ptVars == <<ppc, P, k, pres>>

\* Scalars: 0, 1 and 2^256 - 1.
KInputs == {SM9_ZERO, SM9_ONE, [n \in U256Idx |-> MaxWord]}

PtIdle ==
    /\ ppc = "idle"
    /\ pres = Returned(point_zero)

PtInit ==
    /\ P \in Points
    /\ k \in KInputs
    /\ PtIdle

CallPointDouble ==
    /\ ppc = "idle"
    /\ pres' = Returned(point_double(P))
    /\ ppc' = "double_done"
    /\ UNCHANGED <<P, k>>

\* P.point_add(&P.point_neg())
CallPointAddNeg ==
    /\ ppc = "idle"
    /\ pres' = point_add(P, point_neg(P))
    /\ ppc' = "add_neg_done"
    /\ UNCHANGED <<P, k>>

\* P.point_sub(&P)
CallPointSub ==
    /\ ppc = "idle"
    /\ pres' = point_sub(P, P)
    /\ ppc' = "sub_done"
    /\ UNCHANGED <<P, k>>

\* P.point_mul(&k)
CallPointMul ==
    /\ ppc = "idle"
    /\ pres' = point_mul(P, k)
    /\ ppc' = "mul_done"
    /\ UNCHANGED <<P, k>>

\* Point::zero().point_mul(&k)
CallPointMulZero ==
    /\ ppc = "idle"
    /\ pres' = point_mul(point_zero, k)
    /\ ppc' = "mul_zero_done"
    /\ UNCHANGED <<P, k>>


----------------------------------------------------------------------------
(* Collaborators of the SM2 protocol (crate::sm2::p256_ecc, kdf,            *)
(* random_uint, crate::sm3, num_bigint).  Bytes are 0..255.                 *)

\* Longest message encrypted.
MaxMsgLen == 2

\* ciphertext framing of Sm2PrivateKey::decrypt
C1LenCompressed == 33
C1LenUncompressed == 65
TagLen == 32
CoordLen == C1LenCompressed - 1

\* The order of the curve group (P256C_PARAMS.n): a point is its discrete
\* logarithm to the base g_point, and 0 is the point at infinity.
GroupOrder == 5
\* P256C_PARAMS.h, the cofactor
Cofactor == 1
GPoint == 1
\* random_uint(): a scalar in [1, n - 1]
Scalars == 1..(GroupOrder - 1)

base_mul_point(scalar, pnt) == (scalar * pnt) % GroupOrder
sm2_is_zero(pnt) == pnt = 0

\* Affine coordinates: P and -P share x and differ in y.
XCoord(pnt) == IF pnt <= GroupOrder - pnt THEN pnt ELSE GroupOrder - pnt
YCoord(pnt) == pnt
YOdd(pnt) == IF pnt <= GroupOrder - pnt THEN 0 ELSE 1
is_valid_affine(xc, yc) == \E pnt \in Scalars : XCoord(pnt) = xc /\ YCoord(pnt) = yc

Zeros(n) == [idx \in 1..n |-> 0]
Take(bs, n) == SubSeq(bs, 1, n)

\* The number of leading zero bytes of bs from position pos on
RECURSIVE LeadingZeros(_, _)
LeadingZeros(bs, pos) ==
    IF pos > Len(bs) THEN Len(bs)
    ELSE IF bs[pos] # 0 THEN pos - 1
    ELSE LeadingZeros(bs, pos + 1)

\* BigUint::from_bytes_be: the value, that is the bytes without leading zeros
from_bytes_be(bs) == SubSeq(bs, LeadingZeros(bs, 1) + 1, Len(bs))

\* BigUint::to_bytes_be: the minimal big-endian bytes, [0] for zero
to_bytes_be(big) == IF Len(big) = 0 THEN <<0>> ELSE big

RECURSIVE BitXor(_, _, _)
BitXor(x, y, n) ==
    IF n = 0 THEN 0
    ELSE (IF x % 2 = y % 2 THEN 0 ELSE 1) + 2 * BitXor(x \div 2, y \div 2, n - 1)

\* The byte at position pos of x written on n bytes, zeros in front
ByteAt(x, n, pos) == IF pos <= n - Len(x) THEN 0 ELSE x[pos - (n - Len(x))]

\* BigUint ^ BigUint: aligned at the least-significant byte
BigXor(x, y) ==
    LET n == IF Len(x) >= Len(y) THEN Len(x) ELSE Len(y)
    IN  from_bytes_be([pos \in 1..n |-> BitXor(ByteAt(x, n, pos), ByteAt(y, n, pos), 8)])

\* The coordinate bytes fed to kdf and sm3_hash, x.inner().to_bytes_be(): one
\* byte, a coordinate being below 256 here
CoordBytes(c) == <<c>>

\* kdf(z, klen): klen keystream bytes determined by z = x2 || y2; a shorter
\* keystream is a prefix of a longer one.
KdfByte(z, idx) ==
    LET sh == z[Len(z)]
    IN  IF sh = 1 THEN 0 ELSE (sh * idx + sh - 1) % 3

kdf(z, klen) == [idx \in 1..klen |-> KdfByte(z, idx)]

\* sm3_hash: a 32-byte digest, injective on the inputs hashed here
sm3_hash(bs) == <<Len(bs)>> \o bs \o Zeros(TagLen - 1 - Len(bs))

\* The flag loop: every keystream byte is zero
AllZero(t) == \A idx \in 1..Len(t) : t[idx] = 0

\* Point::to_byte: the prefix byte, then the 32-byte coordinates
Pad(c) == Zeros(CoordLen - 1) \o <<c>>
to_byte(pnt, modle) ==
    CASE modle = "Compressed" -> <<2 + YOdd(pnt)>> \o Pad(XCoord(pnt))
      [] modle = "Uncompressed" -> <<4>> \o Pad(XCoord(pnt)) \o Pad(YCoord(pnt))
      [] modle = "Mixed" -> <<6 + YOdd(pnt)>> \o Pad(XCoord(pnt)) \o Pad(YCoord(pnt))

\* The coordinate a padded 32-byte field holds, or -1 when it holds none.
Unpad(bs) == IF Take(bs, CoordLen - 1) = Zeros(CoordLen - 1) THEN bs[CoordLen] ELSE -1

\* Point::from_byte: the decoded affine coordinates, or a decode error
from_byte(bs, modle) ==
    LET xc == Unpad(SubSeq(bs, 2, CoordLen + 1))
        yc == Unpad(SubSeq(bs, CoordLen + 2, 2 * CoordLen + 1))
        bad == [ok |-> FALSE, x |-> 0, y |-> 0]
    IN  CASE modle = "Compressed" ->
               IF bs[1] \in {2, 3} /\ \E pnt \in Scalars : XCoord(pnt) = xc
               THEN LET pnt == CHOOSE q \in Scalars :
                                   XCoord(q) = xc /\ YOdd(q) = bs[1] - 2
                    IN  [ok |-> TRUE, x |-> xc, y |-> YCoord(pnt)]
               ELSE bad
          [] modle = "Uncompressed" ->
               IF bs[1] = 4 /\ xc >= 0 /\ yc >= 0
               THEN [ok |-> TRUE, x |-> xc, y |-> yc] ELSE bad
          [] modle = "Mixed" ->
               IF bs[1] \in {6, 7} /\ xc >= 0 /\ yc >= 0
               THEN [ok |-> TRUE, x |-> xc, y |-> yc] ELSE bad

----------------------------------------------------------------------------
(* Sm2PublicKey::encrypt and Sm2PrivateKey::decrypt.                        *)

CompressModles == {"Compressed", "Uncompressed", "Mixed"}

Ok(v) == [kind |-> "ok", err |-> "", val |-> v]
Err(e) == [kind |-> "err", err |-> e, val |-> <<>>]
Panic == [kind |-> "panic", err |-> "", val |-> <<>>]
NoResult == [kind |-> "none", err |-> "", val |-> <<>>]

\* The errors decrypt returns
Sm2Errors == {"PointDecodeErr", "CheckPointErr", "ZeroPoint", "ZeroData", "HashNotEqual"}

\* public_from_private
public_from_private(dkey) == base_mul_point(dkey, GPoint)

\* flag of Sm2PublicKey::encrypt once the loop body has run with the scalar
\* kk: the keystream t is all zero (an Err returned before it leaves it unset)
encrypt_flag(pkp, m, kk) ==
    LET c2_p == base_mul_point(kk, pkp)
    IN  /\ ~sm2_is_zero(base_mul_point(Cofactor, pkp))
        /\ AllZero(kdf(CoordBytes(XCoord(c2_p)) \o CoordBytes(YCoord(c2_p)), Len(m)))

\* What one iteration of the loop of Sm2PublicKey::encrypt returns with the
\* scalar kk when its flag is not set: Ok(c) or Err(ZeroPoint)
encrypt_iter(pkp, modle, m, kk) ==
    LET klen == Len(m)
        c1_p == base_mul_point(kk, GPoint)
        s_p == base_mul_point(Cofactor, pkp)
        c2_p == base_mul_point(kk, pkp)
        x2_bytes == CoordBytes(XCoord(c2_p))
        y2_bytes == CoordBytes(YCoord(c2_p))
        t == kdf(x2_bytes \o y2_bytes, klen)
        c2 == BigXor(from_bytes_be(m), from_bytes_be(t))
        c3 == sm3_hash(x2_bytes \o m \o y2_bytes)
    IN  IF sm2_is_zero(s_p) THEN Err("ZeroPoint")
        ELSE Ok(to_byte(c1_p, modle) \o to_bytes_be(c2) \o c3)

\* Sm2PrivateKey::decrypt
decrypt(dkey, modle, ciphertext) ==
    LET c1_end_index == IF modle = "Compressed" THEN C1LenCompressed
                        ELSE C1LenUncompressed
        n == Len(ciphertext)
        c1_bytes == SubSeq(ciphertext, 1, c1_end_index)
        c2_bytes == SubSeq(ciphertext, c1_end_index + 1, n - TagLen)
        c3_bytes == SubSeq(ciphertext, n - TagLen + 1, n)
        kelen == Len(c2_bytes)
        dec == from_byte(c1_bytes, modle)
        c1_point == CHOOSE q \in Scalars : XCoord(q) = dec.x /\ YCoord(q) = dec.y
        s_point == base_mul_point(Cofactor, c1_point)
        c2_point == base_mul_point(dkey, c1_point)
        x2_bytes == CoordBytes(XCoord(c2_point))
        y2_bytes == CoordBytes(YCoord(c2_point))
        t == kdf(x2_bytes \o y2_bytes, kelen)
        flag == AllZero(t)
        m == BigXor(from_bytes_be(c2_bytes), from_bytes_be(t))
        hu == sm3_hash(x2_bytes \o to_bytes_be(m) \o y2_bytes)
    IN  \* &ciphertext[0..c1_end_index]
        IF n < c1_end_index THEN Panic
        \* ciphertext.len() - 32, and &ciphertext[c1_end_index..(len - 32)]
        ELSE IF n < TagLen \/ c1_end_index > n - TagLen THEN Panic
        ELSE IF ~dec.ok THEN Err("PointDecodeErr")
        ELSE IF ~is_valid_affine(dec.x, dec.y) THEN Err("CheckPointErr")
        ELSE IF sm2_is_zero(s_point) THEN Err("ZeroPoint")
        ELSE IF flag THEN Err("ZeroData")
        ELSE IF hu # c3_bytes THEN Err("HashNotEqual")
        ELSE Ok(to_bytes_be(m))

VARIABLES
    d,               \* Sm2PrivateKey.d
    compress_modle,  \* the key pair's CompressModle
    msg,             \* the message given to encrypt
    epc,             \* position of the encrypt call: idle, loop, drawn, done
    ek,              \* the scalar random_uint() returned last
    eres,            \* what encrypt returned
    dpc,             \* position of the decrypt call: idle, done
    dct,             \* the ciphertext given to decrypt
    dres             \* what decrypt returned

smVars == <<d, compress_modle, msg, epc, ek, eres, dpc, dct, dres>>

vars == <<intVars, ptVars, smVars>>

MsgBytes == {0, 1, 2}
RECURSIVE SeqsUpTo(_, _)
SeqsUpTo(S, n) ==
    IF n = 0 THEN {<<>>}
    ELSE SeqsUpTo(S, n - 1) \cup [1..n -> S]
Msgs == SeqsUpTo(MsgBytes, MaxMsgLen)

SmIdle ==
    /\ epc = "idle" /\ ek = 0 /\ eres = NoResult
    /\ dpc = "idle" /\ dct = <<>> /\ dres = NoResult

\* gen_keypair(compress_modle), and the message to encrypt
SmInit ==
    /\ d \in Scalars
    /\ compress_modle \in CompressModles
    /\ msg \in Msgs
    /\ SmIdle

SmFixed ==
    /\ d = 1 /\ compress_modle = "Compressed" /\ msg = <<>>
    /\ SmIdle

\* pk.encrypt(msg) is called
EncryptCall ==
    /\ epc = "idle"
    /\ epc' = "loop"
    /\ UNCHANGED <<d, compress_modle, msg, ek, eres, dpc, dct, dres>>

\* let k = random_uint()
EncryptDraw ==
    /\ epc = "loop"
    /\ ek' \in Scalars
    /\ epc' = "drawn"
    /\ UNCHANGED <<d, compress_modle, msg, eres, dpc, dct, dres>>

\* The rest of an iteration whose keystream is all zero: the loop goes round
EncryptRetry ==
    /\ epc = "drawn"
    /\ encrypt_flag(public_from_private(d), msg, ek)
    /\ epc' = "loop"
    /\ UNCHANGED <<d, compress_modle, msg, ek, eres, dpc, dct, dres>>

\* The rest of an iteration that returns Ok(c) or Err(ZeroPoint)
EncryptReturn ==
    /\ epc = "drawn"
    /\ ~encrypt_flag(public_from_private(d), msg, ek)
    /\ eres' = encrypt_iter(public_from_private(d), compress_modle, msg, ek)
    /\ epc' = "done"
    /\ UNCHANGED <<d, compress_modle, msg, ek, dpc, dct, dres>>

\* sk.decrypt(&encrypt) on the ciphertext encrypt returned
DecryptHonest ==
    /\ epc = "done" /\ eres.kind = "ok" /\ dpc = "idle"
    /\ dct' = eres.val
    /\ dres' = decrypt(d, compress_modle, eres.val)
    /\ dpc' = "done"
    /\ UNCHANGED <<d, compress_modle, msg, epc, ek, eres>>

\* Lengths a received ciphertext is cut to
TruncLens(ct) ==
    LET c1 == IF compress_modle = "Compressed" THEN C1LenCompressed
              ELSE C1LenUncompressed
    IN  {n \in {0, TagLen - 1, TagLen, c1 - 1, c1, c1 + TagLen - 1, c1 + TagLen,
                Len(ct) - 1} : n >= 0 /\ n < Len(ct)}

\* sk.decrypt on a truncated ciphertext
DecryptTruncated ==
    /\ epc = "done" /\ eres.kind = "ok" /\ dpc = "idle"
    /\ \E n \in TruncLens(eres.val) :
         /\ dct' = Take(eres.val, n)
         /\ dres' = decrypt(d, compress_modle, Take(eres.val, n))
    /\ dpc' = "done"
    /\ UNCHANGED <<d, compress_modle, msg, epc, ek, eres>>

\* sk.decrypt on a ciphertext with one byte replaced: the prefix byte, the
\* last byte of the x coordinate or the last byte of the tag
DecryptTampered ==
    /\ epc = "done" /\ eres.kind = "ok" /\ dpc = "idle"
    /\ \E pos \in {1, CoordLen + 1, Len(eres.val)}, v \in {0, 9} :
         LET bad == [eres.val EXCEPT ![pos] = v]
         IN  /\ bad # eres.val
             /\ dct' = bad
             /\ dres' = decrypt(d, compress_modle, bad)
    /\ dpc' = "done"
    /\ UNCHANGED <<d, compress_modle, msg, epc, ek, eres>>


----------------------------------------------------------------------------
(* Specifications.  Each layer is checked alone, the other two at rest.     *)

IntFixed == a = SM9_ZERO /\ b = SM9_ZERO /\ IntIdle
PtFixed == P = point_zero /\ k = SM9_ZERO /\ PtIdle

\* The integer layer
Init == IntInit /\ PtFixed /\ SmFixed
Next ==
    \/ CallAdd /\ UNCHANGED <<ptVars, smVars>>
    \/ CallSubSum /\ UNCHANGED <<ptVars, smVars>>
    \/ CallSub /\ UNCHANGED <<ptVars, smVars>>
    \/ CallToBytes /\ UNCHANGED <<ptVars, smVars>>
    \/ CallFromBytes /\ UNCHANGED <<ptVars, smVars>>
    \/ MulBegin /\ UNCHANGED <<ptVars, smVars>>
    \/ MulInner /\ UNCHANGED <<ptVars, smVars>>
    \/ MulRowEnd /\ UNCHANGED <<ptVars, smVars>>
    \/ MulCombine /\ UNCHANGED <<ptVars, smVars>>
Spec == Init /\ [][Next]_vars

\* The point layer
PointInit == IntFixed /\ PtInit /\ SmFixed
PointNext ==
    \/ CallPointDouble /\ UNCHANGED <<intVars, smVars>>
    \/ CallPointAddNeg /\ UNCHANGED <<intVars, smVars>>
    \/ CallPointSub /\ UNCHANGED <<intVars, smVars>>
    \/ CallPointMul /\ UNCHANGED <<intVars, smVars>>
    \/ CallPointMulZero /\ UNCHANGED <<intVars, smVars>>
PointSpec == PointInit /\ [][PointNext]_vars

\* The SM2 protocol
Sm2Init == IntFixed /\ PtFixed /\ SmInit
Sm2Next ==
    \/ EncryptCall /\ UNCHANGED <<intVars, ptVars>>
    \/ EncryptDraw /\ UNCHANGED <<intVars, ptVars>>
    \/ EncryptRetry /\ UNCHANGED <<intVars, ptVars>>
    \/ EncryptReturn /\ UNCHANGED <<intVars, ptVars>>
    \/ DecryptHonest /\ UNCHANGED <<intVars, ptVars>>
    \/ DecryptTruncated /\ UNCHANGED <<intVars, ptVars>>
    \/ DecryptTampered /\ UNCHANGED <<intVars, ptVars>>
Sm2Spec == Sm2Init /\ [][Sm2Next]_vars

\* A scalar whose keystream for msg is not all zero
GoodScalar(kk) ==
    LET c2_p == base_mul_point(kk, public_from_private(d))
    IN  ~AllZero(kdf(CoordBytes(XCoord(c2_p)) \o CoordBytes(YCoord(c2_p)), Len(msg)))

\* The SM2 protocol when encrypt keeps running and random_uint() is fair: a
\* scalar whose keystream is not all zero is drawn if drawing one stays possible.
Sm2FairSpec ==
    /\ Sm2Init
    /\ [][Sm2Next]_vars
    /\ WF_vars(EncryptCall /\ UNCHANGED <<intVars, ptVars>>)
    /\ WF_vars(EncryptDraw /\ UNCHANGED <<intVars, ptVars>>)
    /\ WF_vars(EncryptRetry /\ UNCHANGED <<intVars, ptVars>>)
    /\ WF_vars(EncryptReturn /\ UNCHANGED <<intVars, ptVars>>)
    /\ SF_vars(EncryptDraw /\ GoodScalar(ek') /\ UNCHANGED <<intVars, ptVars>>)

----------------------------------------------------------------------------
(* Properties of the integer layer, checked under Spec.                     *)

AllOnes == [n \in U256Idx |-> MaxWord]

\* The integer a U256 stands for, least-significant limb first.
Val(x) == x[0] + Word * (x[1] + Word * (x[2] + Word * x[3]))
TwoTo256 == Pow2(4 * WordBits)

\* The product by an independent route: the column sums of the limb
\* products in base 2^WordBits, then one carry pass.
ColSum(x, y, n) ==
    LET Term(p) == IF n - p \in U256Idx THEN x[p] * y[n - p] ELSE 0
    IN  Term(0) + Term(1) + Term(2) + Term(3)

RECURSIVE RefCarry(_, _, _)
RefCarry(x, y, n) ==
    IF n = 0 THEN 0
    ELSE (ColSum(x, y, n - 1) + RefCarry(x, y, n - 1)) \div Word

RefMul(x, y) == [n \in U512Idx |-> (ColSum(x, y, n) + RefCarry(x, y, n)) % Word]

\* C1: u256_mul(a, b) returns the 8 limbs of the exact integer product a * b:
\* limb for limb the product computed on whole limbs, and at the boundary
\* operands 0 * b = 0, 1 * b = b and (2^256 - 1)^2 = 2^512 - 2^257 + 1.
C1_MulExact ==
    pc = "mul_done" =>
        /\ ret = RefMul(a, b)
        /\ (a = SM9_ZERO \/ b = SM9_ZERO) => ret = ZeroU512
        /\ a = SM9_ONE => ret = [n \in U512Idx |-> IF n <= 3 THEN b[n] ELSE 0]
        /\ (a = AllOnes /\ b = AllOnes) =>
               ret = [n \in U512Idx |-> IF n = 0 THEN 1
                                        ELSE IF n <= 3 THEN 0
                                        ELSE IF n = 4 THEN MaxWord - 1
                                        ELSE MaxWord]

\* The multiplication of 2^256 - 1 by itself has returned.
C1_Witness ==
    /\ pc = "mul_done"
    /\ a = AllOnes /\ b = AllOnes
    /\ ret[0] = 1 /\ ret[4] = MaxWord - 1 /\ ret[7] = MaxWord

\* C3: u256_sub(u256_add(a, b).0, b).0 = a; the carry of u256_add is set
\* exactly when a + b >= 2^256 and the sum is a + b mod 2^256; the borrow of
\* u256_sub is set exactly when its first operand is below its second and
\* the difference is the difference mod 2^256.
C3_AddSubInverse ==
    /\ pc \in {"added", "subbed"} =>
           /\ carry <=> (Val(a) + Val(b) >= TwoTo256)
           /\ Val(sum) = (Val(a) + Val(b)) % TwoTo256
    /\ pc = "subbed" =>
           /\ diff = a
           /\ borrow <=> (Val(sum) < Val(b))
    /\ pc = "sub_done" =>
           /\ borrow <=> (Val(a) < Val(b))
           /\ borrow <=> (u256_cmp(a, b) = -1)
           /\ Val(diff) = (Val(a) - Val(b)) % TwoTo256

\* (2^256 - 1) + 1 wrapped to 0 with a carry out of every limb, and 0 - 1
\* borrowed through every limb back to 2^256 - 1.
C3_Witness ==
    /\ pc = "subbed"
    /\ a = AllOnes /\ b = SM9_ONE
    /\ sum = SM9_ZERO /\ carry
    /\ diff = a /\ borrow

\* C4: sm9_u256_from_bytes(sm9_u256_to_bytes(v)) = v, and sm9_u256_to_bytes
\* puts the most-significant limb first and each limb's bytes little-endian.
C4_BytesRoundTrip ==
    /\ pc \in {"encoded", "decoded"} =>
           \A q \in U256Idx, e \in 0..(LimbBytes - 1) :
               bytes[(3 - q) * LimbBytes + e] = (a[q] \div Pow2(ByteBits * e)) % ByteMod
    /\ pc = "decoded" => decoded = a

\* A value whose limbs and whose bytes within a limb all differ went round.
C4_Witness ==
    /\ pc = "decoded"
    /\ a[3] = 1 /\ a[0] = MaxWord /\ a[1] = 0
    /\ bytes[0] = 1 /\ bytes[1] = 0
    /\ decoded = a

\* C10: no word of u256_mul overflows: the accumulator s[i+j] + a_[i]*b_[j] + u
\* never exceeds the largest word; after the inner loop of row i every s[k]
\* with k < i + 8 and the carry u are below 2^HalfBits; so the recombination
\* (s[2n+1] << HalfBits) | s[2n] is s[2n+1] * 2^HalfBits + s[2n], no bit lost.
C10_MulNoOverflow ==
    /\ acc <= MaxWord
    /\ pc = "mul_row_end" =>
           /\ u <= HalfMask
           /\ \A n \in 0..(i + 7) : s[n] <= HalfMask
    /\ pc \in {"mul_combine", "mul_done"} => \A n \in SIdx : s[n] <= HalfMask
    /\ pc = "mul_done" => \A n \in U512Idx : ret[n] = s[2 * n + 1] * Half + s[2 * n]

\* The accumulator reached the largest word: the bound is met, not exceeded.
C10_Witness ==
    /\ pc \in {"mul_inner", "mul_row_end"}
    /\ acc = MaxWord
    /\ i + j > 1

----------------------------------------------------------------------------
(* Properties of the point layer, checked under PointSpec.                  *)

\* The coefficient b of the curve y^2 = x^3 + b (SM9_FIVE of u256.rs).
CurveB == 5

RECURSIVE FpPow(_, _)
FpPow(x, n) == IF n = 0 THEN 1 ELSE (x * FpPow(x, n - 1)) % FpPrime
FpInv(x) == FpPow(x, FpPrime - 2)

\* (x, y, z) with z # 0 stands for the affine point (x / z^2, y / z^3).
AffX(p) == (p.x * FpInv(FpPow(p.z, 2))) % FpPrime
AffY(p) == (p.y * FpInv(FpPow(p.z, 3))) % FpPrime

\* y^2 = x^3 + b z^6
OnCurve(p) ==
    /\ ~is_zero(p)
    /\ FpPow(p.y, 2) = (FpPow(p.x, 3) + CurveB * FpPow(p.z, 6)) % FpPrime
ValidPoint(p) == is_zero(p) \/ OnCurve(p)

\* Jacobian doubling with M = 3 x^2 + a z^4: S = 4 x y^2, x' = M^2 - 2 S,
\* y' = M (S - x') - 8 y^4, z' = 2 y z.
RefDouble(p, coeffA) ==
    LET M == (3 * p.x * p.x + coeffA * FpPow(p.z, 4)) % FpPrime
        S == (4 * p.x * p.y * p.y) % FpPrime
        X3 == (M * M - 2 * S) % FpPrime
        Y3 == (M * (S - X3) - 8 * FpPow(p.y, 4)) % FpPrime
        Z3 == (2 * p.y * p.z) % FpPrime
    IN  [x |-> X3, y |-> Y3, z |-> Z3]

\* The tangent rule on affine coordinates of a curve with a = 0:
\* lambda = 3 x^2 / (2 y), x' = lambda^2 - 2 x, y' = lambda (x - x') - y.
AffineDouble(xa, ya) ==
    LET lam == (3 * xa * xa * FpInv((2 * ya) % FpPrime)) % FpPrime
        x3 == (lam * lam - 2 * xa) % FpPrime
    IN  <<x3, (lam * (xa - x3) - ya) % FpPrime>>

\* C9 as stated: point_double returns infinity unchanged and otherwise the
\* Jacobian doubling specialized for a = -3 (M = 3 x^2 - 3 z^4).
C9_DoubleIsAMinus3 ==
    ppc = "double_done" =>
        /\ ~pres.panicked
        /\ pres.pt = IF is_zero(P) THEN P ELSE RefDouble(P, -3)

\* C9 as amended: point_double returns infinity unchanged and otherwise the
\* Jacobian doubling specialized for a = 0 (M = 3 x^2), with z' = 2 y z; on a
\* point of y^2 = x^3 + b with y # 0 that is the tangent-rule double.
C9_DoubleIsAZero ==
    ppc = "double_done" =>
        /\ ~pres.panicked
        /\ pres.pt = IF is_zero(P) THEN P ELSE RefDouble(P, 0)
        /\ ~is_zero(P) => pres.pt.z = (2 * P.y * P.z) % FpPrime
        /\ (OnCurve(P) /\ P.y # 0) =>
               /\ OnCurve(pres.pt)
               /\ <<AffX(pres.pt), AffY(pres.pt)>> = AffineDouble(AffX(P), AffY(P))

\* A point of the curve with z neither 0 nor 1 was doubled, and the a = 0
\* and a = -3 formulas disagree on it.
C9_Witness ==
    /\ ppc = "double_done"
    /\ OnCurve(P) /\ P.z > 1 /\ P.y # 0
    /\ pres.pt = RefDouble(P, 0)
    /\ pres.pt # RefDouble(P, -3)

\* C5: for every valid point P, point_add(P, point_neg(P)) and
\* point_sub(P, P) return the point at infinity.
C5_NegationIdentity ==
    (ppc \in {"add_neg_done", "sub_done"} /\ ValidPoint(P)) =>
        /\ ~pres.panicked
        /\ is_zero(pres.pt)

\* C6: point_mul(P, 0) is infinity, point_mul(P, 1) is P and
\* point_mul(infinity, k) is infinity.
C6_ScalarMulBoundary ==
    /\ (ppc = "mul_done" /\ k = SM9_ZERO) => (~pres.panicked /\ is_zero(pres.pt))
    /\ (ppc = "mul_done" /\ k = SM9_ONE) => (~pres.panicked /\ pres.pt = P)
    /\ ppc = "mul_zero_done" => (~pres.panicked /\ is_zero(pres.pt))

----------------------------------------------------------------------------
(* Properties of the SM2 protocol, checked under Sm2Spec and Sm2FairSpec.   *)

\* C2: decrypt of what encrypt returned is Ok with exactly the message.
C2_RoundTrip ==
    (dpc = "done" /\ dct = eres.val) => dres = Ok(msg)

\* C8: decrypt returns Ok(plaintext) or one of the Sm2Error values for
\* every ciphertext of any length; it never panics.
C8_DecryptTyped ==
    dpc = "done" =>
        \/ dres.kind = "ok"
        \/ dres.kind = "err" /\ dres.err \in Sm2Errors

\* C7: encrypt eventually returns Ok(ciphertext) or a typed Err for every
\* message, the zero-length message included.
C7_EncryptReturns == <>(epc = "done" /\ eres.kind \in {"ok", "err"})

====
